---------------------------- MODULE Spec2Model ----------------------------
(***************************************************************************)
(* Live audio session of src/components/LiveTranslator.tsx.                *)
(*                                                                         *)
(* The component keeps React state (isActive, status, error), seven refs   *)
(* and, for every invocation of toggleSession that takes the start branch, *)
(* a closure holding the objects that invocation created (inputCtx,        *)
(* outputCtx, outputNode, stream, sessionPromise, processor) and the       *)
(* isActive value of the render that created the handler.  An invocation   *)
(* is identified by its index i in 1..MaxInst; a ref holds 0 (null) or     *)
(* the index of the invocation whose object it refers to.                  *)
(*                                                                         *)
(* Everything runs on one event loop: an action is one task (a click, a    *)
(* promise continuation, a callback of the remote session, an audio        *)
(* callback).  State updates made in the synchronous part of the click     *)
(* handler are rendered before the next task; updates made from            *)
(* continuations and callbacks are rendered by the separate Render step.   *)
(*                                                                         *)
(* The component is rendered by App (src/App.tsx) in LIVE mode with the    *)
(* props sourceLang and targetLang.  In TEXT mode App runs the single-shot *)
(* translate flow (handleTranslate and the auto-translate effect), which   *)
(* is modelled by the actions of the last section.                         *)
(***************************************************************************)
EXTENDS Integers, Sequences, FiniteSets, TLC

(* ------------------------------ bounds --------------------------------- *)
MaxInst   == 3
MaxStarts == 2
MaxMsgs   == 3
MaxFrames == 3
MaxTime   == 1
MaxDur    == 2
MaxReqs   == 3

Inst      == 1..MaxInst
Durations == 1..MaxDur

Max(a, b) == IF a >= b THEN a ELSE b

VARIABLES
  mounted,            \* the component is mounted
  apiKey,             \* process.env.API_KEY is set (fixed by the build)
  isActive,           \* useState: isActive
  status,             \* useState: status
  error,              \* useState: error ("null" for null)
  rIsActive,          \* isActive as seen by the rendered toggleSession
  inputContextRef, outputContextRef, streamRef,
  scriptProcessorRef, sessionPromiseRef,
  nextStartTimeRef,   \* the playback cursor
  sourcesRef,         \* set of message ids whose source node is registered
  nStarts,            \* number of start-branch invocations so far
  pc,                 \* position of invocation i of toggleSession
  closureIsActive,    \* isActive captured by the callbacks of invocation i
  inCtx, outCtx,      \* state of the AudioContexts created by invocation i
  stream,             \* state of the MediaStream obtained by invocation i
  proc,               \* state of the ScriptProcessorNode of invocation i
  conn,               \* state of the remote connection of invocation i
  promise,            \* state of sessionPromise of invocation i
  waiting,            \* frames held by pending sessionPromise.then callbacks
  sent,               \* frames handed to session.sendRealtimeInput, in order
  nFrames,            \* number of onaudioprocess callbacks so far
  msgs,               \* onmessage invocations, in arrival order
  clock,              \* currentTime of the output context of invocation i
  stopped,            \* a user stop was issued after invocation i started
  lastSched,          \* id of the most recently scheduled message, 0 if none
  resetSince,         \* line 76 ran after the last buffer was scheduled
  sourceLang,         \* App useState: sourceLang, passed as a prop
  targetLang,         \* App useState: targetLang, passed as a prop
  closureLang,        \* the props captured by invocation i of toggleSession
  config,             \* the config passed to ai.live.connect by invocation i
  inputText,          \* App useState: inputText
  outputText,         \* App useState: outputText
  isTranslating,      \* App useState: isTranslating
  appError,           \* App useState: error ("null" for null)
  autoTranslate,      \* App useState: autoTranslate
  timer,              \* inputText captured by the pending debounce timer
  reqs                \* translateContent calls, in the order they were issued

refs  == <<inputContextRef, outputContextRef, streamRef,
           scriptProcessorRef, sessionPromiseRef>>
ui    == <<isActive, status, error, rIsActive>>
objs  == <<inCtx, outCtx, stream, proc>>
audio == <<nextStartTimeRef, sourcesRef, msgs, lastSched, resetSince>>
net   == <<conn, promise, waiting, sent, nFrames>>
cfg   == <<sourceLang, targetLang, closureLang, config>>
app   == <<inputText, outputText, isTranslating, appError, autoTranslate,
           timer, reqs>>
vars  == <<mounted, apiKey, ui, refs, objs, audio, net, nStarts, pc,
           closureIsActive, clock, stopped, cfg, app>>

\* No props captured yet, no config built yet.
NoLang    == <<"", "">>
NoConfig  == [source |-> "", hear |-> "", target |-> "", voiceName |-> ""]

(* ------------------------------- Init ---------------------------------- *)
\* The initial values of the useState and useRef calls of both components,
\* and no invocation of toggleSession yet.
Constructed ==
  /\ apiKey \in BOOLEAN
  /\ isActive = FALSE
  /\ status = "Ready to connect"
  /\ error = "null"
  /\ rIsActive = FALSE
  /\ inputContextRef = 0 /\ outputContextRef = 0 /\ streamRef = 0
  /\ scriptProcessorRef = 0 /\ sessionPromiseRef = 0
  /\ nextStartTimeRef = 0
  /\ sourcesRef = {}
  /\ nStarts = 0
  /\ pc = [i \in Inst |-> "none"]
  /\ closureIsActive = [i \in Inst |-> FALSE]
  /\ inCtx = [i \in Inst |-> "none"]
  /\ outCtx = [i \in Inst |-> "none"]
  /\ stream = [i \in Inst |-> "none"]
  /\ proc = [i \in Inst |-> "none"]
  /\ conn = [i \in Inst |-> "none"]
  /\ promise = [i \in Inst |-> "none"]
  /\ waiting = [i \in Inst |-> <<>>]
  /\ sent = <<>>
  /\ nFrames = 0
  /\ msgs = <<>>
  /\ clock = [i \in Inst |-> 0]
  /\ stopped = [i \in Inst |-> FALSE]
  /\ lastSched = 0
  /\ resetSince = FALSE
  /\ sourceLang = "auto"
  /\ targetLang = "es"
  /\ closureLang = [i \in Inst |-> NoLang]
  /\ config = [i \in Inst |-> NoConfig]
  /\ inputText = ""
  /\ outputText = ""
  /\ isTranslating = FALSE
  /\ appError = "null"
  /\ autoTranslate = FALSE
  /\ timer = "none"
  /\ reqs = <<>>

\* App shows the live component.
Init == mounted = TRUE /\ Constructed

(* ------------------------------ cleanup -------------------------------- *)
\* One release step of cleanup: the object a ref points at goes to state s.
Release(f, ref, s) == IF ref # 0 THEN [f EXCEPT ![ref] = s] ELSE f

\* cleanup without the line that nulls streamRef.
cleanupKeepingStreamRef ==
  /\ proc' = Release(proc, scriptProcessorRef, "disconnected")
  /\ scriptProcessorRef' = 0
  /\ stream' = Release(stream, streamRef, "stopped")
  /\ streamRef' = streamRef
  /\ inCtx' = Release(inCtx, inputContextRef, "closed")
  /\ inputContextRef' = 0
  /\ outCtx' = Release(outCtx, outputContextRef, "closed")
  /\ outputContextRef' = 0
  /\ sessionPromiseRef' = 0

cleanup ==
  /\ proc' = Release(proc, scriptProcessorRef, "disconnected")
  /\ scriptProcessorRef' = 0
  /\ stream' = Release(stream, streamRef, "stopped")
  /\ streamRef' = 0
  /\ inCtx' = Release(inCtx, inputContextRef, "closed")
  /\ inputContextRef' = 0
  /\ outCtx' = Release(outCtx, outputContextRef, "closed")
  /\ outputContextRef' = 0
  /\ sessionPromiseRef' = 0

\* The ref that release step k of cleanup reads: 1 the processor, 2 the
\* stream, 3 the input context, 4 the output context.
StepRef(k) ==
  CASE k = 1 -> scriptProcessorRef
    [] k = 2 -> streamRef
    [] k = 3 -> inputContextRef
    [] k = 4 -> outputContextRef

\* cleanupThrowing with the stream released before the processor.
cleanupThrowingStreamFirst(k) ==
  /\ StepRef(k) # 0
  /\ stream' = IF k # 2 THEN Release(stream, streamRef, "stopped") ELSE stream
  /\ streamRef' = IF k # 2 THEN 0 ELSE streamRef
  /\ proc' = IF k > 2 THEN Release(proc, scriptProcessorRef, "disconnected")
                      ELSE proc
  /\ scriptProcessorRef' = IF k > 2 THEN 0 ELSE scriptProcessorRef
  /\ inCtx' = IF k > 3 THEN Release(inCtx, inputContextRef, "closed")
                       ELSE inCtx
  /\ inputContextRef' = IF k > 3 THEN 0 ELSE inputContextRef
  /\ UNCHANGED <<outCtx, outputContextRef, sessionPromiseRef>>

\* cleanup when the release call of step k throws.  cleanup has no try/catch:
\* the steps before k are done, the resource of step k stays as it was with
\* its ref, and the statements after the throw do not run.
cleanupThrowing(k) ==
  /\ StepRef(k) # 0
  /\ proc' = IF k > 1 THEN Release(proc, scriptProcessorRef, "disconnected")
                      ELSE proc
  /\ scriptProcessorRef' = IF k > 1 THEN 0 ELSE scriptProcessorRef
  /\ stream' = IF k > 2 THEN Release(stream, streamRef, "stopped") ELSE stream
  /\ streamRef' = IF k > 2 THEN 0 ELSE streamRef
  /\ inCtx' = IF k > 3 THEN Release(inCtx, inputContextRef, "closed")
                       ELSE inCtx
  /\ inputContextRef' = IF k > 3 THEN 0 ELSE inputContextRef
  /\ UNCHANGED <<outCtx, outputContextRef, sessionPromiseRef>>

(* --------------------------- React state ------------------------------- *)
\* A state setter called on an unmounted component changes nothing.
SetState(cur, v) == IF mounted THEN v ELSE cur

\* React re-renders after an update posted outside the click handler: the
\* button's handler now closes over the current isActive.
Render ==
  /\ mounted
  /\ rIsActive # isActive
  /\ rIsActive' = isActive
  /\ UNCHANGED <<mounted, apiKey, cfg, app, isActive, status, error, refs, objs, audio,
                 net, nStarts, pc, closureIsActive, clock, stopped>>

\* useEffect cleanup: the component is unmounted.
Unmount ==
  /\ mounted
  /\ mounted' = FALSE
  /\ cleanup
  /\ UNCHANGED <<apiKey, cfg, app, ui, audio, net, nStarts, pc, closureIsActive, clock,
                 stopped>>

(* --------------------------- toggleSession ----------------------------- *)
\* Lines 51-56: the handler sees isActive = true and stops.
Stop ==
  /\ mounted
  /\ rIsActive
  /\ isActive' = FALSE
  /\ status' = "Disconnected"
  /\ rIsActive' = FALSE
  /\ cleanup
  /\ stopped' = [i \in Inst |-> i <= nStarts]
  /\ UNCHANGED <<mounted, apiKey, cfg, app, error, audio, net, nStarts, pc,
                 closureIsActive, clock>>

\* Lines 51-56 when a release call inside cleanup throws: both setters have
\* already been called, the exception leaves the handler.
StopThrowing(k) ==
  /\ mounted
  /\ rIsActive
  /\ isActive' = FALSE
  /\ status' = "Disconnected"
  /\ rIsActive' = FALSE
  /\ cleanupThrowing(k)
  /\ stopped' = [i \in Inst |-> i <= nStarts]
  /\ UNCHANGED <<mounted, apiKey, cfg, app, error, audio, net, nStarts, pc,
                 closureIsActive, clock>>

\* useEffect cleanup when a release call inside cleanup throws.
UnmountThrowing(k) ==
  /\ mounted
  /\ mounted' = FALSE
  /\ cleanupThrowing(k)
  /\ UNCHANGED <<apiKey, cfg, app, ui, audio, net, nStarts, pc, closureIsActive, clock,
                 stopped>>

\* Lines 58-64 and 167-172: the start branch without an API key throws before
\* anything is acquired; the catch block runs in the same task.
StartNoKey ==
  /\ mounted
  /\ ~rIsActive
  /\ nStarts < MaxInst
  /\ ~apiKey
  /\ nStarts' = nStarts + 1
  /\ closureIsActive' = [closureIsActive EXCEPT ![nStarts + 1] = rIsActive]
  /\ pc' = [pc EXCEPT ![nStarts + 1] = "failed"]
  /\ status' = "Connecting..."
  /\ error' = "API Key missing"
  /\ isActive' = FALSE
  /\ rIsActive' = FALSE
  /\ cleanup
  /\ UNCHANGED <<mounted, apiKey, cfg, app, audio, net, clock, stopped>>

\* Lines 58-79: the start branch up to the await of getUserMedia.
Start ==
  /\ mounted
  /\ ~rIsActive
  /\ nStarts < MaxInst
  /\ apiKey
  /\ nStarts' = nStarts + 1
  /\ closureIsActive' = [closureIsActive EXCEPT ![nStarts + 1] = rIsActive]
  /\ pc' = [pc EXCEPT ![nStarts + 1] = "awaitMic"]
  /\ isActive' = TRUE
  /\ status' = "Connecting..."
  /\ error' = "null"
  /\ rIsActive' = TRUE
  /\ inCtx' = [inCtx EXCEPT ![nStarts + 1] = "open"]
  /\ outCtx' = [outCtx EXCEPT ![nStarts + 1] = "open"]
  /\ inputContextRef' = nStarts + 1
  /\ outputContextRef' = nStarts + 1
  /\ nextStartTimeRef' = 0
  /\ resetSince' = TRUE
  /\ closureLang' = [closureLang EXCEPT ![nStarts + 1] =
                                          <<sourceLang, targetLang>>]
  /\ UNCHANGED <<mounted, apiKey, sourceLang, targetLang, config, app,
                 streamRef, scriptProcessorRef,
                 sessionPromiseRef, stream, proc, sourcesRef, msgs, lastSched,
                 net, clock, stopped>>

\* Lines 149-162: the config of ai.live.connect.  The template of the system
\* instruction names the source language as 'Detect automatically' when it
\* is 'auto' and repeats the raw code in the 'If you hear' sentence.
SessionConfig(s, t) ==
  [source    |-> IF s = "auto" THEN "Detect automatically" ELSE s,
   hear      |-> s,
   target    |-> t,
   voiceName |-> "Kore"]

\* MicGranted building the config from the props of the latest render.
MicGrantedReadingProps(i) ==
  /\ pc[i] = "awaitMic"
  /\ pc' = [pc EXCEPT ![i] = "done"]
  /\ stream' = [stream EXCEPT ![i] = "live"]
  /\ streamRef' = i
  /\ conn' = [conn EXCEPT ![i] = "connecting"]
  /\ promise' = [promise EXCEPT ![i] = "pending"]
  /\ sessionPromiseRef' = i
  /\ config' = [config EXCEPT ![i] = SessionConfig(sourceLang, targetLang)]
  /\ UNCHANGED <<mounted, apiKey, sourceLang, targetLang, closureLang, app,
                 ui, inputContextRef, outputContextRef,
                 scriptProcessorRef, inCtx, outCtx, proc, audio, waiting, sent,
                 nFrames, nStarts, closureIsActive, clock, stopped>>

\* Lines 79-165: getUserMedia resolved; the stream is stored, the remote
\* session is requested and its promise stored.
MicGranted(i) ==
  /\ pc[i] = "awaitMic"
  /\ pc' = [pc EXCEPT ![i] = "done"]
  /\ stream' = [stream EXCEPT ![i] = "live"]
  /\ streamRef' = i
  /\ conn' = [conn EXCEPT ![i] = "connecting"]
  /\ promise' = [promise EXCEPT ![i] = "pending"]
  /\ sessionPromiseRef' = i
  /\ config' = [config EXCEPT ![i] =
                  SessionConfig(closureLang[i][1], closureLang[i][2])]
  /\ UNCHANGED <<mounted, apiKey, sourceLang, targetLang, closureLang, app,
                 ui, inputContextRef, outputContextRef,
                 scriptProcessorRef, inCtx, outCtx, proc, audio, waiting, sent,
                 nFrames, nStarts, closureIsActive, clock, stopped>>

\* Lines 79 and 167-172: getUserMedia rejected; the catch block.
MicDenied(i) ==
  /\ pc[i] = "awaitMic"
  /\ pc' = [pc EXCEPT ![i] = "failed"]
  /\ error' = SetState(error, "Failed to start live session")
  /\ isActive' = SetState(isActive, FALSE)
  /\ cleanup
  /\ UNCHANGED <<mounted, apiKey, cfg, app, status, rIsActive, audio, net, nStarts,
                 closureIsActive, clock, stopped>>

(* ------------------------ remote session events ------------------------ *)
\* The remote session emits one opened event, then messages, then one
\* terminal event (closed or error).  The session promise settles in a task
\* of its own: it resolves some time after opened and rejects when the
\* connection ends before opened.

\* Lines 87-106: onopen.  Building the capture graph on an input context that
\* cleanup already closed either throws (nothing is stored) or succeeds with a
\* processor that never runs, depending on the browser.
onopen(i) ==
  /\ conn[i] = "connecting"
  /\ conn' = [conn EXCEPT ![i] = "open"]
  /\ status' = SetState(status, "Connected - Speak now")
  /\ \E throws \in (IF inCtx[i] = "closed" THEN BOOLEAN ELSE {FALSE}) :
       IF throws
         THEN UNCHANGED <<proc, scriptProcessorRef>>
         ELSE /\ proc' = [proc EXCEPT ![i] = "connected"]
              /\ scriptProcessorRef' = i
  /\ UNCHANGED <<mounted, apiKey, cfg, app, isActive, error, rIsActive, inputContextRef,
                 outputContextRef, streamRef, sessionPromiseRef, inCtx, outCtx,
                 stream, audio, promise, waiting, sent, nFrames, nStarts, pc,
                 closureIsActive, clock, stopped>>

\* The promise of a connection that ends before it opened is rejected.
Settle(i) ==
  IF conn[i] = "connecting" THEN [promise EXCEPT ![i] = "rejected"] ELSE promise

\* Lines 137-142: onclose, with the isActive its closure captured.
onclose(i) ==
  /\ conn[i] \in {"connecting", "open"}
  /\ conn' = [conn EXCEPT ![i] = "closed"]
  /\ promise' = Settle(i)
  /\ IF closureIsActive[i]
       THEN /\ status' = SetState(status, "Connection Closed")
            /\ isActive' = SetState(isActive, FALSE)
       ELSE UNCHANGED <<status, isActive>>
  /\ UNCHANGED <<mounted, apiKey, cfg, app, error, rIsActive, refs, objs, audio, waiting,
                 sent, nFrames, nStarts, pc, closureIsActive, clock, stopped>>

\* onerror without setIsActive(false).
onerrorKeepingActive(i) ==
  /\ conn[i] \in {"connecting", "open"}
  /\ conn' = [conn EXCEPT ![i] = "error"]
  /\ promise' = Settle(i)
  /\ error' = SetState(error, "Connection error occurred")
  /\ UNCHANGED <<mounted, apiKey, cfg, app, status, isActive, rIsActive, refs, objs,
                 audio, waiting, sent, nFrames, nStarts, pc, closureIsActive,
                 clock, stopped>>

\* Lines 143-147: onerror.
onerror(i) ==
  /\ conn[i] \in {"connecting", "open"}
  /\ conn' = [conn EXCEPT ![i] = "error"]
  /\ promise' = Settle(i)
  /\ error' = SetState(error, "Connection error occurred")
  /\ isActive' = SetState(isActive, FALSE)
  /\ UNCHANGED <<mounted, apiKey, cfg, app, status, rIsActive, refs, objs, audio,
                 waiting, sent, nFrames, nStarts, pc, closureIsActive, clock,
                 stopped>>

\* sessionPromise resolves but the callbacks registered while it was pending
\* are lost: their frames are never sent.
ResolvePromiseDropping(i) ==
  /\ promise[i] = "pending"
  /\ conn[i] \in {"open", "closed", "error"}
  /\ promise' = [promise EXCEPT ![i] = "resolved"]
  /\ waiting' = [waiting EXCEPT ![i] = <<>>]
  /\ UNCHANGED <<mounted, apiKey, cfg, app, ui, refs, objs, audio, conn, sent, nFrames,
                 nStarts, pc, closureIsActive, clock, stopped>>

\* The frames of invocation i, tagged for the send log.
Tagged(i, fs) == [k \in 1..Len(fs) |-> [inst |-> i, frame |-> fs[k]]]

\* Lines 84 and 99-101: sessionPromise resolves; the then callbacks registered
\* while it was pending run in registration order, each sending its frame.
ResolvePromise(i) ==
  /\ promise[i] = "pending"
  /\ conn[i] \in {"open", "closed", "error"}
  /\ promise' = [promise EXCEPT ![i] = "resolved"]
  /\ sent' = sent \o Tagged(i, waiting[i])
  /\ waiting' = [waiting EXCEPT ![i] = <<>>]
  /\ UNCHANGED <<mounted, apiKey, cfg, app, ui, refs, objs, audio, conn, nFrames,
                 nStarts, pc, closureIsActive, clock, stopped>>

(* ------------------------------ capture -------------------------------- *)
\* Lines 95-102: onaudioprocess fires while the processor is connected in a
\* running input context.  The then callback runs at once when the promise
\* is resolved and waits while it is pending.
onaudioprocess(i) ==
  /\ proc[i] = "connected"
  /\ inCtx[i] = "open"
  /\ nFrames < MaxFrames
  /\ nFrames' = nFrames + 1
  /\ CASE promise[i] = "resolved" ->
            /\ sent' = Append(sent, [inst |-> i, frame |-> nFrames + 1])
            /\ UNCHANGED waiting
       [] promise[i] = "pending" ->
            /\ waiting' = [waiting EXCEPT ![i] = Append(@, nFrames + 1)]
            /\ UNCHANGED sent
       [] OTHER -> UNCHANGED <<sent, waiting>>
  /\ UNCHANGED <<mounted, apiKey, cfg, app, ui, refs, objs, audio, conn, promise,
                 nStarts, pc, closureIsActive, clock, stopped>>

(* ------------------------------ playback ------------------------------- *)
\* Line 115 without the max: the cursor is set to the device clock.
SyncTimingNoMax(cursor, now) == now

\* Line 115: the cursor catches up with the device clock.
SyncTiming(cursor, now) == Max(cursor, now)

\* Lines 107-122: onmessage for a message that carries audio, up to the await
\* of the decode.  ctx is the context outputContextRef holds at this moment.
onmessage(i) ==
  /\ conn[i] = "open"
  /\ Len(msgs) < MaxMsgs
  /\ IF outputContextRef = 0
       THEN /\ msgs' = Append(msgs, [inst |-> i, ctx |-> 0, st |-> "dropped",
                                     dur |-> 0, start |-> 0])
            /\ UNCHANGED nextStartTimeRef
       ELSE /\ nextStartTimeRef' =
                 SyncTiming(nextStartTimeRef, clock[outputContextRef])
            /\ msgs' = Append(msgs, [inst |-> i, ctx |-> outputContextRef,
                                     st |-> "decoding", dur |-> 0,
                                     start |-> 0])
  /\ UNCHANGED <<mounted, apiKey, cfg, app, ui, refs, objs, sourcesRef, lastSched,
                 resetSince, net, nStarts, pc, closureIsActive, clock, stopped>>

\* decodeAudioData (utils/audioUtils) is asynchronous: the handler is suspended
\* until the decode settles, other tasks run meanwhile, and decodes of
\* different messages settle in any order.  It yields a buffer of some
\* duration or fails.
decodeAudioData ==
  [ok : {TRUE}, duration : Durations] \cup {[ok |-> FALSE, duration |-> 0]}

\* Lines 117-134: onmessage resumes after the await with decode result r.
\* A failed decode throws out of the handler.  Otherwise the source is created
\* in ctx and connected to the outputNode of the invocation that owns the
\* callback; connecting nodes of two different contexts throws.  Otherwise the
\* buffer is started at the cursor, the cursor advances by its duration and
\* the source is registered.
onmessageResume(m, r) ==
  /\ m \in 1..Len(msgs)
  /\ msgs[m].st = "decoding"
  /\ CASE ~r.ok ->
            /\ msgs' = [msgs EXCEPT ![m].st = "failed"]
            /\ UNCHANGED <<nextStartTimeRef, sourcesRef, lastSched, resetSince>>
       [] r.ok /\ msgs[m].ctx # msgs[m].inst ->
            /\ msgs' = [msgs EXCEPT ![m].st = "threw"]
            /\ UNCHANGED <<nextStartTimeRef, sourcesRef, lastSched, resetSince>>
       [] OTHER ->
            /\ msgs' = [msgs EXCEPT ![m].st = "scheduled",
                                    ![m].dur = r.duration,
                                    ![m].start = nextStartTimeRef]
            /\ nextStartTimeRef' = nextStartTimeRef + r.duration
            /\ sourcesRef' = sourcesRef \cup {m}
            /\ lastSched' = m
            /\ resetSince' = FALSE
  /\ UNCHANGED <<mounted, apiKey, cfg, app, ui, refs, objs, net, nStarts, pc,
                 closureIsActive, clock, stopped>>

\* Lines 128-130: the ended listener of a source whose buffer played out.
ended(m) ==
  /\ m \in sourcesRef
  /\ outCtx[msgs[m].ctx] = "open"
  /\ clock[msgs[m].ctx] >= msgs[m].start + msgs[m].dur
  /\ sourcesRef' = sourcesRef \ {m}
  /\ UNCHANGED <<mounted, apiKey, cfg, app, ui, refs, objs, nextStartTimeRef, msgs,
                 lastSched, resetSince, net, nStarts, pc, closureIsActive,
                 clock, stopped>>

\* The clock of an open output context advances.
Tick(i) ==
  /\ outCtx[i] = "open"
  /\ clock[i] < MaxTime
  /\ clock' = [clock EXCEPT ![i] = @ + 1]
  /\ UNCHANGED <<mounted, apiKey, cfg, app, ui, refs, objs, audio, net, nStarts, pc,
                 closureIsActive, stopped>>

(* ------------------------- language selection ------------------------- *)
\* The codes offered by the two selects; the target select excludes 'auto'.
SourceLangs == {"auto", "en", "es"}
TargetLangs == {"en", "es"}

\* App.tsx lines 315-318: the source select changes sourceLang; the component
\* re-renders with the new prop.
setSourceLang(l) ==
  /\ l # sourceLang
  /\ sourceLang' = l
  /\ UNCHANGED <<mounted, apiKey, ui, refs, objs, audio, net, nStarts, pc,
                 closureIsActive, clock, stopped, targetLang, closureLang,
                 config, app>>

\* App.tsx lines 332-336: the target select changes targetLang.
setTargetLang(l) ==
  /\ l # targetLang
  /\ targetLang' = l
  /\ UNCHANGED <<mounted, apiKey, ui, refs, objs, audio, net, nStarts, pc,
                 closureIsActive, clock, stopped, sourceLang, closureLang,
                 config, app>>

\* App.tsx lines 147-156 in LIVE mode: the swap button exchanges the two
\* languages unless the source is 'auto'.
handleSwapLanguages ==
  /\ sourceLang # "auto"
  /\ sourceLang # targetLang
  /\ sourceLang' = targetLang
  /\ targetLang' = sourceLang
  /\ UNCHANGED <<mounted, apiKey, ui, refs, objs, audio, net, nStarts, pc,
                 closureIsActive, clock, stopped, closureLang, config, app>>

(* ----------------------- single-shot translate flow -------------------- *)
\* The texts the user can type.
Texts == {"", " ", "a", "b"}

\* String.prototype.trim on the texts above.
Trim(t) == IF t = " " THEN "" ELSE t

\* The text translateContent resolves with for a given content.
translateContent(content) ==
  CASE content = "a" -> "A"
    [] content = "b" -> "B"
    [] OTHER -> ""

\* The live component's variables: the translate flow leaves them alone.
live == <<mounted, apiKey, ui, refs, objs, audio, net, nStarts, pc,
          closureIsActive, clock, stopped, cfg>>

\* App.tsx lines 135-143: the auto-translate effect after a render with input
\* text t and auto-translate flag a.  Its cleanup cleared the earlier timer;
\* it arms a new one, which captures the handleTranslate of that render.
AutoTranslateEffect(t, a) == IF a /\ Trim(t) # "" THEN t ELSE "none"

\* App.tsx line 353: typing changes inputText.
setInputText(t) ==
  /\ t # inputText
  /\ inputText' = t
  /\ timer' = AutoTranslateEffect(t, autoTranslate)
  /\ UNCHANGED <<live, outputText, isTranslating, appError, autoTranslate,
                 reqs>>

\* App.tsx line 433: the auto-translate checkbox.
setAutoTranslate ==
  /\ autoTranslate' = ~autoTranslate
  /\ timer' = AutoTranslateEffect(inputText, ~autoTranslate)
  /\ UNCHANGED <<live, inputText, outputText, isTranslating, appError, reqs>>

\* App.tsx lines 94-118: handleTranslate of a render whose inputText is t, in
\* TEXT mode, up to the await of translateContent.  The caller has checked
\* that t.trim() is not empty.
handleTranslate(t) ==
  /\ Len(reqs) < MaxReqs
  /\ isTranslating' = TRUE
  /\ appError' = "null"
  /\ reqs' = Append(reqs, [content |-> t, st |-> "pending"])

\* App.tsx lines 446-447: a click on the translate button, which is disabled
\* while isTranslating or while inputText is empty.
ClickTranslate ==
  /\ ~isTranslating
  /\ inputText # ""
  /\ Trim(inputText) # ""
  /\ handleTranslate(inputText)
  /\ UNCHANGED <<live, inputText, outputText, autoTranslate, timer>>

\* App.tsx lines 138-140: the debounce timer fires and calls handleTranslate.
TimerFires ==
  /\ timer # "none"
  /\ Trim(timer) # ""
  /\ handleTranslate(timer)
  /\ timer' = "none"
  /\ UNCHANGED <<live, inputText, outputText, autoTranslate>>

\* App.tsx lines 116-131: translateContent of request r resolved.
TranslateResolved(r) ==
  /\ r \in 1..Len(reqs)
  /\ reqs[r].st = "pending"
  /\ reqs' = [reqs EXCEPT ![r].st = "done"]
  /\ outputText' = translateContent(reqs[r].content)
  /\ isTranslating' = FALSE
  /\ UNCHANGED <<live, inputText, appError, autoTranslate, timer>>

\* App.tsx lines 127-131: translateContent of request r rejected; the error
\* shown is the message of the exception, or the default when it has none.
TranslateRejected(r) ==
  /\ r \in 1..Len(reqs)
  /\ reqs[r].st = "pending"
  /\ reqs' = [reqs EXCEPT ![r].st = "failed"]
  /\ appError' \in {"No translation returned from the model.",
                    "An unexpected error occurred during translation."}
  /\ isTranslating' = FALSE
  /\ UNCHANGED <<live, inputText, outputText, autoTranslate, timer>>

(* --------------------------- specifications --------------------------- *)
\* The start branch while fewer than MaxStarts starts have been made.
StartWithin == nStarts < MaxStarts /\ Start

StartNoKeyWithin == nStarts < MaxStarts /\ StartNoKey

\* The lifecycle and capture side with up to MaxStarts starts: clicks,
\* renders, unmount, microphone results, the remote session's lifecycle
\* events and captured frames.  None of these actions reads the playback
\* state.
Next ==
  \/ Render
  \/ Unmount
  \/ Stop
  \/ StartNoKeyWithin
  \/ StartWithin
  \/ \E i \in Inst : MicGranted(i)
  \/ \E i \in Inst : MicDenied(i)
  \/ \E i \in Inst : onopen(i)
  \/ \E i \in Inst : onclose(i)
  \/ \E i \in Inst : onerror(i)
  \/ \E i \in Inst : ResolvePromise(i)
  \/ \E i \in Inst : onaudioprocess(i)

Spec == Init /\ [][Next]_vars

\* The lifecycle alone with up to MaxInst starts: no frames are captured, so
\* nothing reads the session promise.
NextLife ==
  \/ Render
  \/ Unmount
  \/ Stop
  \/ StartNoKey
  \/ Start
  \/ \E i \in Inst : MicGranted(i)
  \/ \E i \in Inst : MicDenied(i)
  \/ \E i \in Inst : onopen(i)
  \/ \E i \in Inst : onclose(i)
  \/ \E i \in Inst : onerror(i)

SpecLife == Init /\ [][NextLife]_vars

\* Spec with the scheduling the event loop guarantees: a pending render and
\* a settled promise's callbacks run.  Clicks, the microphone prompt and the
\* remote session's events are not forced to happen.
SpecFair ==
  /\ Init
  /\ [][Next]_vars
  /\ WF_vars(Render)
  /\ \A i \in Inst : WF_vars(ResolvePromise(i))

\* The lifecycle with release calls that may throw inside cleanup.
NextTeardown ==
  \/ Render
  \/ StartWithin
  \/ Stop
  \/ Unmount
  \/ \E k \in 1..4 : StopThrowing(k)
  \/ \E k \in 1..4 : UnmountThrowing(k)
  \/ \E i \in Inst : MicGranted(i)
  \/ \E i \in Inst : MicDenied(i)
  \/ \E i \in Inst : onopen(i)
  \/ \E i \in Inst : onerror(i)

InitTeardown == Init /\ apiKey

SpecTeardown == InitTeardown /\ [][NextTeardown]_vars

\* The lifecycle under changes of the language selection.
NextConfig ==
  \/ Render
  \/ StartWithin
  \/ Stop
  \/ \E l \in SourceLangs : setSourceLang(l)
  \/ \E l \in TargetLangs : setTargetLang(l)
  \/ handleSwapLanguages
  \/ \E i \in Inst : MicGranted(i)
  \/ \E i \in Inst : MicDenied(i)
  \/ \E i \in Inst : onopen(i)
  \/ \E i \in Inst : onerror(i)

InitConfig == Init /\ apiKey

SpecConfig == InitConfig /\ [][NextConfig]_vars

\* App in TEXT mode: the live component is not rendered.
NextApp ==
  \/ \E t \in Texts : setInputText(t)
  \/ setAutoTranslate
  \/ ClickTranslate
  \/ TimerFires
  \/ \E r \in 1..MaxReqs : TranslateResolved(r)
  \/ \E r \in 1..MaxReqs : TranslateRejected(r)

InitApp == mounted = FALSE /\ Constructed /\ apiKey

SpecApp == InitApp /\ [][NextApp]_vars

\* The playback side: inbound messages, decodes, playback completion and the
\* device clock, under the lifecycle events that change what onmessage reads
\* (the output context ref, the connection, the cursor reset).  Unmount runs
\* the same cleanup as Stop, onclose ends the messages of a connection as
\* onerror does and changes nothing else (its closure's isActive is false),
\* and captured frames are not read by playback.
NextPlay ==
  \/ Render
  \/ Stop
  \/ StartWithin
  \/ \E i \in Inst : MicGranted(i)
  \/ \E i \in Inst : MicDenied(i)
  \/ \E i \in Inst : onopen(i)
  \/ \E i \in Inst : onerror(i)
  \/ \E i \in Inst : onmessage(i)
  \/ \E m \in 1..MaxMsgs, r \in decodeAudioData : onmessageResume(m, r)
  \/ \E m \in 1..MaxMsgs : ended(m)
  \/ \E i \in Inst : Tick(i)

InitPlay == Init /\ apiKey

SpecPlay == InitPlay /\ [][NextPlay]_vars

(* ------------------------------ claims --------------------------------- *)
\* Invocation i holds a session resource that was acquired and not released.
Held(i) ==
  \/ inCtx[i] = "open"
  \/ outCtx[i] = "open"
  \/ stream[i] = "live"
  \/ proc[i] = "connected"
  \/ conn[i] \in {"connecting", "open"}

\* C1: in every reachable state at most one session holds acquired and
\* unreleased resources (microphone stream, audio contexts, capture
\* processor, remote connection).
C1_AtMostOneLiveSession == Cardinality({i \in Inst : Held(i)}) <= 1

\* The local resources of invocation i are all released.
Released(i) ==
  /\ stream[i] # "live"
  /\ proc[i] # "connected"
  /\ inCtx[i] # "open"
  /\ outCtx[i] # "open"

\* C2: when the remote session emits error while the session is active, the
\* same step leaves the microphone stopped, the processor disconnected, both
\* contexts closed, the session handle discarded and isActive false.
C2_ErrorTearsDown ==
  [][\A i \in Inst :
       (conn[i] = "open" /\ conn'[i] = "error" /\ mounted /\ isActive)
         => /\ stream'[i] # "live"
            /\ proc'[i] # "connected"
            /\ inCtx'[i] # "open"
            /\ outCtx'[i] # "open"
            /\ sessionPromiseRef' # i
            /\ ~isActive']_vars

\* C3: after a user stop no frame of a session started before that stop is
\* handed to sendRealtimeInput.
C3_NoSendAfterStop ==
  [][\A k \in (Len(sent) + 1)..Len(sent') : ~stopped[sent'[k].inst]]_vars

\* Message m arrives or its handler resumes in this step.
Handled(m) ==
  \/ m > Len(msgs)
  \/ m <= Len(msgs) /\ msgs'[m] # msgs[m]

\* C4: after a user stop no message of a session started before that stop is
\* scheduled for playback or moves the cursor, whether its handler was
\* suspended at the decode when the stop occurred or it arrived later.
C4_NoScheduleAfterStop ==
  [][\A m \in 1..Len(msgs') :
       (Handled(m) /\ stopped[msgs'[m].inst])
         => /\ msgs'[m].st # "scheduled"
            /\ nextStartTimeRef' = nextStartTimeRef]_vars

\* C5: whenever isActive is false no session resource is held: no live
\* microphone stream, no open audio context, no connected capture processor
\* and no retained session handle.
C5_IdleHoldsNothing ==
  (mounted /\ ~isActive)
    => /\ \A i \in Inst : Released(i)
       /\ sessionPromiseRef = 0

\* The buffer of message m is scheduled (source.start is called) in this step.
Scheduling(m) ==
  /\ m <= Len(msgs)
  /\ msgs[m].st = "decoding"
  /\ msgs'[m].st = "scheduled"

\* The cursor value left by the most recently scheduled buffer.
LastEnd == IF lastSched = 0 THEN 0 ELSE msgs[lastSched].start + msgs[lastSched].dur

\* C6 as stated: the cursor never decreases and every buffer is started at or
\* after the cursor value left by the previously scheduled buffer.
C6_CursorNeverDecreases ==
  [][/\ nextStartTimeRef' >= nextStartTimeRef
     /\ \A m \in 1..Len(msgs') :
          Scheduling(m) => msgs'[m].start >= LastEnd]_vars

\* C6 amended: the cursor never decreases except when a start resets it to 0
\* (line 76); every buffer is started at the cursor value of that moment,
\* which is at or after the cursor value left by the previously scheduled
\* buffer unless a start reset the cursor in between.
C6_CursorMonotoneBetweenResets ==
  [][/\ nextStartTimeRef' >= nextStartTimeRef \/ nStarts' > nStarts
     /\ \A m \in 1..Len(msgs') :
          Scheduling(m)
            => /\ msgs'[m].start = nextStartTimeRef
               /\ nextStartTimeRef' = nextStartTimeRef + msgs'[m].dur
               /\ resetSince \/ msgs'[m].start >= LastEnd]_vars

\* C6 witness: the cursor caught up with the device clock before a buffer
\* was scheduled, a second buffer was scheduled right behind it, and a later
\* start has reset the cursor.
C6_Witness ==
  \E a, b \in 1..Len(msgs) :
    /\ a # b
    /\ msgs[a].st = "scheduled" /\ msgs[b].st = "scheduled"
    /\ msgs[a].start > 0
    /\ msgs[b].start = msgs[a].start + msgs[a].dur
    /\ lastSched = b
    /\ resetSince
    /\ nextStartTimeRef = 0

\* C7: whenever a buffer is scheduled its start time equals
\* max(cursor, device current time) taken at that moment, so it is never
\* earlier than the device's current time.
C7_StartAtMaxOfCursorAndNow ==
  [][\A m \in 1..Len(msgs') :
       Scheduling(m)
         => msgs'[m].start = Max(nextStartTimeRef, clock[msgs[m].ctx])]_vars

\* C8: of two chunks of one session, the one whose onmessage ran first is
\* started no later than the other.
C8_PlaybackInArrivalOrder ==
  \A a, b \in 1..Len(msgs) :
    (/\ a < b
     /\ msgs[a].inst = msgs[b].inst
     /\ msgs[a].st = "scheduled"
     /\ msgs[b].st = "scheduled")
      => msgs[a].start <= msgs[b].start

\* The decode of message m fails in this step.
Failing(m) ==
  /\ m <= Len(msgs)
  /\ msgs[m].st = "decoding"
  /\ msgs'[m].st = "failed"

\* C9: a decode failure leaves the lifecycle state, the held resources and
\* the cursor unchanged and schedules nothing, and the valid chunks that
\* arrive after the failed one are still scheduled in arrival order.
C9_DecodeFailureIsLocal ==
  /\ [][\A m \in 1..Len(msgs') :
          Failing(m)
            => /\ UNCHANGED <<isActive, status, error, refs, objs, conn>>
               /\ UNCHANGED <<nextStartTimeRef, sourcesRef>>]_vars
  /\ [](\A f, a, b \in 1..Len(msgs) :
          (/\ msgs[f].st = "failed"
           /\ f < a /\ a < b
           /\ msgs[a].inst = msgs[f].inst /\ msgs[b].inst = msgs[f].inst
           /\ msgs[a].st = "scheduled" /\ msgs[b].st = "scheduled")
            => msgs[a].start <= msgs[b].start)

\* Invocation i holds a live microphone stream and a remote connection that
\* is being opened or is open: its session is connecting or active.
SessionLive(i) ==
  /\ stream[i] = "live"
  /\ conn[i] \in {"connecting", "open"}

\* C10: a start issued while a session is connecting or active is rejected:
\* it acquires nothing, overwrites no handle and does not reset the cursor.
C10_StartRejectedWhileLive ==
  [][(nStarts' > nStarts /\ \E i \in Inst : SessionLive(i))
       => /\ UNCHANGED <<refs, objs>>
          /\ nextStartTimeRef' = nextStartTimeRef]_vars

\* The start of invocation i fails in this step because getUserMedia
\* rejected.
MicFailing(i) == pc[i] = "awaitMic" /\ pc'[i] = "failed"

\* C11: when getUserMedia fails the error is shown, isActive is false, both
\* audio contexts created by that start are closed and their handles cleared,
\* and no remote session is opened.
C11_MicFailureReleasesAll ==
  [][\A i \in Inst :
       (MicFailing(i) /\ mounted)
         => /\ error' # "null"
            /\ ~isActive'
            /\ inCtx'[i] # "open" /\ outCtx'[i] # "open"
            /\ inputContextRef' = 0 /\ outputContextRef' = 0
            /\ conn'[i] = "none"]_vars

\* C12: when the remote open fails while connecting, an error is shown,
\* the audio contexts and the microphone stream are released and isActive is
\* false.
C12_ConnectFailureReleasesAll ==
  [][\A i \in Inst :
       (conn[i] = "connecting" /\ conn'[i] = "error" /\ mounted /\ isActive)
         => /\ error' # "null"
            /\ ~isActive'
            /\ stream'[i] # "live"
            /\ inCtx'[i] # "open" /\ outCtx'[i] # "open"]_vars

\* C13: when the remote session emits closed while the session is active,
\* the controller tears the session down and isActive becomes false, without
\* setting an error message.
C13_RemoteCloseTearsDown ==
  [][\A i \in Inst :
       (conn[i] = "open" /\ conn'[i] = "closed" /\ mounted /\ isActive)
         => /\ ~isActive'
            /\ stream'[i] # "live"
            /\ proc'[i] # "connected"
            /\ inCtx'[i] # "open" /\ outCtx'[i] # "open"
            /\ error' = error]_vars

\* C14: once the component is unmounted no session resource is live: no
\* live microphone stream, no open audio context, no connected capture
\* processor, whatever was in flight at the unmount.
C14_UnmountedHoldsNothing ==
  ~mounted => \A i \in Inst : Released(i)

\* The frames of invocation i that reached sendRealtimeInput, in send order.
SentBy(i) ==
  LET Own(x) == x.inst = i
      own == SelectSeq(sent, Own)
  IN  [k \in 1..Len(own) |-> own[k].frame]

\* The frames invocation i captured: those sent, then those still waiting.
CapturedBy(i) == SentBy(i) \o waiting[i]

Increasing(q) == \A j, k \in 1..Len(q) : j < k => q[j] < q[k]

\* C15: the frames of a session reach sendRealtimeInput in capture order,
\* none dropped and none duplicated, whether the session promise resolved
\* before or after they were captured; once the promise is resolved no
\* captured frame is left unsent.
C15_FramesSentInCaptureOrder ==
  /\ \A i \in Inst : Increasing(CapturedBy(i))
  /\ \A f \in 1..nFrames :
       \E i \in Inst : \E k \in 1..Len(CapturedBy(i)) : CapturedBy(i)[k] = f
  /\ \A i \in Inst : promise[i] = "resolved" => waiting[i] = <<>>
  /\ \A i \in Inst : promise[i] = "pending" => SentBy(i) = <<>>

\* C15 witness: three frames captured by one session were all sent, in
\* capture order.
C15_Witness ==
  /\ Len(sent) = 3
  /\ \E i \in Inst : SentBy(i) = <<1, 2, 3>> /\ promise[i] = "resolved"

\* A fatal error of invocation i is handled in this step: the API key is
\* missing, getUserMedia rejected, or the remote session emitted error while
\* connecting or open.
Fatal(i) ==
  \/ pc[i] = "none" /\ pc'[i] = "failed"
  \/ MicFailing(i)
  \/ conn[i] \in {"connecting", "open"} /\ conn'[i] = "error"

\* C16: every fatal error leaves a non-empty error message and isActive
\* false.
C16_FatalErrorShowsMessageAndIdle ==
  [][\A i \in Inst :
       (Fatal(i) /\ mounted) => (error' # "null" /\ ~isActive')]_vars

\* C16 witness: a session that was open has failed with a transport error,
\* the message is shown and isActive is false.
C16_Witness ==
  /\ mounted
  /\ error = "Connection error occurred"
  /\ ~isActive
  /\ \E i \in Inst : conn[i] = "error" /\ proc[i] = "connected"

\* The stop branch of toggleSession runs in this step: only it sets the
\* status 'Disconnected', and it runs only after a start changed the status.
StopStep == status # "Disconnected" /\ status' = "Disconnected"

\* A callback of the remote session of invocation i runs in this step.
Callback(i) == conn[i] # "none" /\ conn'[i] # conn[i]

\* C17: a user stop leaves isActive false and status 'Disconnected', and no
\* later callback of a session started before the stop turns the status into
\* a connected reading.
C17_StopIsFinalForStatus ==
  /\ [][StopStep => (~isActive' /\ status' = "Disconnected")]_vars
  /\ [][\A i \in Inst :
          (Callback(i) /\ stopped[i])
            => (status' = status \/ status' # "Connected - Speak now")]_vars

\* The sum of the durations of messages 1..k.
RECURSIVE DurSum(_)
DurSum(k) == IF k = 0 THEN 0 ELSE DurSum(k - 1) + msgs[k].dur

\* C18: on a fresh session whose device clock is still 0, chunks that were
\* all scheduled start back to back in arrival order: the first at 0, each
\* next one at the previous start plus the previous duration, and the cursor
\* ends at the sum of the durations.
C18_GaplessBackToBack ==
  (/\ nStarts = 1
   /\ clock[1] = 0
   /\ ~stopped[1]
   /\ Len(msgs) >= 2
   /\ \A k \in 1..Len(msgs) : msgs[k].st = "scheduled")
    => /\ \A k \in 1..Len(msgs) : msgs[k].start = DurSum(k - 1)
       /\ nextStartTimeRef = DurSum(Len(msgs))

\* cleanup runs in this step: a stop, the unmount, or the catch block of a
\* failed start.
CleanupStep ==
  \/ StopStep
  \/ mounted /\ ~mounted'
  \/ \E i \in Inst : MicFailing(i)
  \/ \E i \in Inst : pc[i] = "none" /\ pc'[i] = "failed"

\* The five handles cleanup clears are all null.
AllHandlesNull ==
  /\ scriptProcessorRef = 0
  /\ streamRef = 0
  /\ inputContextRef = 0
  /\ outputContextRef = 0
  /\ sessionPromiseRef = 0

\* How many of the resources the handles pointed at before the step are still
\* unreleased after it.
LeftHeld ==
  (IF scriptProcessorRef # 0 /\ proc'[scriptProcessorRef] = "connected"
     THEN 1 ELSE 0)
  + (IF streamRef # 0 /\ stream'[streamRef] = "live" THEN 1 ELSE 0)
  + (IF inputContextRef # 0 /\ inCtx'[inputContextRef] = "open" THEN 1 ELSE 0)
  + (IF outputContextRef # 0 /\ outCtx'[outputContextRef] = "open"
       THEN 1 ELSE 0)

\* C19: a teardown in which the release of one resource fails still releases
\* every other resource the handles pointed at and clears every handle.
C19_TeardownExceptionSafe ==
  [][(StopStep \/ (mounted /\ ~mounted'))
       => (LeftHeld <= 1 /\ AllHandlesNull')]_vars

\* C20: cleanup leaves all five handles null, and a cleanup that runs when
\* they are already null changes no resource.
C20_TeardownIdempotent ==
  [][CleanupStep
       => /\ AllHandlesNull'
          /\ AllHandlesNull => UNCHANGED objs]_vars

\* C20 witness: the unmount cleanup ran after a user stop had already torn
\* down an open session.
C20_Witness ==
  /\ ~mounted
  /\ status = "Disconnected"
  /\ nStarts = 1
  /\ proc[1] = "disconnected"
  /\ Released(1)
  /\ AllHandlesNull

\* The handle cleanup clears in its step k, in the order of the claim.
HandleAt(k) ==
  CASE k = 1 -> scriptProcessorRef
    [] k = 2 -> streamRef
    [] k = 3 -> inputContextRef
    [] k = 4 -> outputContextRef
    [] k = 5 -> sessionPromiseRef

\* Step k of cleanup was performed in this step: its handle was set and is
\* now null.
Performed(k) == HandleAt(k) # 0 /\ HandleAt(k)' = 0

\* C21: in every cleanup, also one cut short by a throwing release, a step is
\* performed only if every earlier step whose handle was set was performed,
\* in the order processor, stream, input context, output context, session
\* handle; a performed step has released its resource.
C21_TeardownOrder ==
  [][CleanupStep
       => /\ \A j, k \in 1..5 :
               (j < k /\ HandleAt(j) # 0 /\ Performed(k)) => Performed(j)
          /\ Performed(1) => proc'[scriptProcessorRef] = "disconnected"
          /\ Performed(2) => stream'[streamRef] = "stopped"
          /\ Performed(3) => inCtx'[inputContextRef] = "closed"
          /\ Performed(4) => outCtx'[outputContextRef] = "closed"]_vars

\* C21 witness: a stop whose cleanup threw while closing the input context
\* left the processor disconnected and the stream stopped, and both contexts
\* open behind their handles.
C21_Witness ==
  /\ status = "Disconnected"
  /\ scriptProcessorRef = 0 /\ proc[1] = "disconnected"
  /\ streamRef = 0 /\ stream[1] = "stopped"
  /\ inputContextRef = 1 /\ inCtx[1] = "open"
  /\ outputContextRef = 1 /\ outCtx[1] = "open"
  /\ sessionPromiseRef = 1

\* C22: a frame is handed to sendRealtimeInput only while its session is
\* open: after opened and before closed or error.
C22_SendOnlyWhileOpen ==
  [][\A k \in (Len(sent) + 1)..Len(sent') :
       conn[sent'[k].inst] = "open"]_vars

\* Invocation i is no longer the current session: it was stopped or a later
\* start was made.
Stale(i) == stopped[i] \/ i < nStarts

\* C23: a message handler of a stale session leaves the cursor alone and
\* never takes the output context of a later start.
C23_CursorOwnedByActiveSession ==
  [][\A m \in 1..Len(msgs') :
       (Handled(m) /\ Stale(msgs'[m].inst))
         => /\ nextStartTimeRef' = nextStartTimeRef
            /\ msgs'[m].ctx <= msgs'[m].inst]_vars

\* C24: sourcesRef holds only scheduled sources, and none of a session that
\* was stopped.
C24_ActiveSourcesExact ==
  \A m \in sourcesRef :
    /\ msgs[m].st = "scheduled"
    /\ ~stopped[msgs[m].inst]

\* C25: the config of a session is built from the languages selected when the
\* start was clicked and never changes afterwards.
C25_ConfigFixedAtStart ==
  [][\A i \in Inst :
       /\ config[i] # NoConfig => config'[i] = config[i]
       /\ (config[i] = NoConfig /\ config'[i] # NoConfig)
            => config'[i] = SessionConfig(closureLang[i][1],
                                          closureLang[i][2])
       /\ closureLang[i] # NoLang => closureLang'[i] = closureLang[i]]_vars

\* C25 witness: a session is open and active with the config of the languages
\* it was started with, and both selections have changed since.
C25_Witness ==
  \E i \in Inst :
    /\ conn[i] = "open"
    /\ isActive
    /\ ~stopped[i]
    /\ config[i] = SessionConfig("auto", "es")
    /\ sourceLang = "en"
    /\ targetLang = "en"

\* C26: opened, closed or error of a session that a later start replaced
\* changes neither isActive, status, error, nor any handle or resource.
C26_StaleCallbacksHarmless ==
  [][\A i \in Inst :
       (Callback(i) /\ i < nStarts /\ mounted)
         => UNCHANGED <<isActive, status, error, refs, objs>>]_vars

\* Every unreleased resource is the one its handle refers to.
NoOrphan ==
  \A i \in Inst :
    /\ stream[i] = "live" => streamRef = i
    /\ inCtx[i] = "open" => inputContextRef = i
    /\ outCtx[i] = "open" => outputContextRef = i
    /\ proc[i] = "connected" => scriptProcessorRef = i

\* A handle that refers to an unreleased resource is not overwritten with
\* another resource.
NoOverwrite ==
  /\ (streamRef # 0 /\ streamRef' \notin {0, streamRef})
       => stream[streamRef] # "live"
  /\ (inputContextRef # 0 /\ inputContextRef' \notin {0, inputContextRef})
       => inCtx[inputContextRef] # "open"
  /\ (outputContextRef # 0 /\ outputContextRef' \notin {0, outputContextRef})
       => outCtx[outputContextRef] # "open"
  /\ (scriptProcessorRef # 0
        /\ scriptProcessorRef' \notin {0, scriptProcessorRef})
       => proc[scriptProcessorRef] # "connected"

\* No resource of invocation i is stored into a handle after a stop or the
\* unmount tore that invocation down.
NoStoreAfterTeardown ==
  \A i \in Inst :
    ((streamRef' = i /\ streamRef # i)
       \/ (scriptProcessorRef' = i /\ scriptProcessorRef # i))
      => (~stopped[i] /\ mounted)

\* C27: no resource is orphaned: every unreleased resource is referenced by
\* its handle, no start overwrites a handle of an unreleased resource, and
\* nothing is stored into a handle after the teardown of its start.
C27_NoOrphanedResource ==
  /\ []NoOrphan
  /\ [][NoOverwrite]_vars
  /\ [][NoStoreAfterTeardown]_vars

\* Invocation i was torn down by a stop or by the unmount.
TornDown(i) == stopped[i] \/ (~mounted /\ pc[i] # "none")

\* C28: the remote connection of a torn-down session is eventually closed.
C28_TornDownSessionIsClosed ==
  \A i \in Inst :
    (TornDown(i) /\ conn[i] \in {"connecting", "open"})
      ~> (conn[i] \notin {"connecting", "open"})

\* The requests whose translateContent has not settled.
InFlight == {r \in 1..Len(reqs) : reqs[r].st = "pending"}

\* C29: isTranslating is false only when no request is in flight, and once
\* every request has completed the output is the result of the request issued
\* last.
C29_LatestRequestWins ==
  /\ ~isTranslating => InFlight = {}
  /\ (Len(reqs) >= 2 /\ InFlight = {}
        /\ \A r \in 1..Len(reqs) : reqs[r].st = "done")
       => outputText = translateContent(reqs[Len(reqs)].content)

=============================================================================
